---- MODULE Spec2Model ----
(***************************************************************************)
(* Model of scripts/reorganize_tests.py: the TestReorganizer that          *)
(* classifies test files, builds a rename plan, moves the files and        *)
(* rewrites include statements and CMake manifests.                        *)
(* A last part models TestMigrator.migrate_file of                         *)
(* scripts/migrate_tests.py.                                               *)
(*                                                                         *)
(* Python strings are modelled as sequences of one-character strings, so   *)
(* str.replace, str.capitalize, str.split and the `in` operator are        *)
(* computed character by character as Python computes them.                *)
(***************************************************************************)
EXTENDS Integers, Sequences, FiniteSets, TLC

(***************************************************************************)
(* Python str primitives                                                   *)
(***************************************************************************)
LowerLetters == <<"a","b","c","d","e","f","g","h","i","j","k","l","m","n","o","p","q","r","s","t","u","v","w","x","y","z">>
UpperLetters == <<"A","B","C","D","E","F","G","H","I","J","K","L","M","N","O","P","Q","R","S","T","U","V","W","X","Y","Z">>

\* str.lower() on one character
LowerChar(c) ==
  IF \E i \in 1..26 : UpperLetters[i] = c
  THEN LowerLetters[CHOOSE i \in 1..26 : UpperLetters[i] = c]
  ELSE c

\* str.upper() on one character
UpperChar(c) ==
  IF \E i \in 1..26 : LowerLetters[i] = c
  THEN UpperLetters[CHOOSE i \in 1..26 : LowerLetters[i] = c]
  ELSE c

\* str.lower()
Lower(s) == [i \in 1..Len(s) |-> LowerChar(s[i])]

\* str.capitalize(): first character upper-cased, the rest lower-cased
Capitalize(s) == [i \in 1..Len(s) |-> IF i = 1 THEN UpperChar(s[i]) ELSE LowerChar(s[i])]

\* s[lo:] in Python (1-based lo)
Drop(s, n) == SubSeq(s, n + 1, Len(s))

\* s.startswith(p)
StartsWith(s, p) == Len(p) <= Len(s) /\ SubSeq(s, 1, Len(p)) = p

\* s.endswith(p)
EndsWith(s, p) == Len(p) <= Len(s) /\ SubSeq(s, Len(s) - Len(p) + 1, Len(s)) = p

\* `sub in s`
Contains(sub, s) ==
  \E i \in 1..(Len(s) - Len(sub) + 1) : SubSeq(s, i, i + Len(sub) - 1) = sub

\* str.replace(old, new): left to right, non-overlapping occurrences
RECURSIVE Replace(_, _, _)
Replace(s, old, new) ==
  IF Len(s) < Len(old) \/ Len(old) = 0 THEN s
  ELSE IF StartsWith(s, old)
       THEN new \o Replace(Drop(s, Len(old)), old, new)
       ELSE <<s[1]>> \o Replace(Tail(s), old, new)

\* str.split(sep) for a one-character separator
RECURSIVE Split(_, _)
Split(s, sep) ==
  IF ~ \E i \in 1..Len(s) : s[i] = sep THEN <<s>>
  ELSE LET i == CHOOSE k \in 1..Len(s) : s[k] = sep /\ \A j \in 1..(k - 1) : s[j] # sep
       IN  <<SubSeq(s, 1, i - 1)>> \o Split(Drop(s, i), sep)

\* ''.join(words)
RECURSIVE Join(_)
Join(words) == IF words = <<>> THEN <<>> ELSE Head(words) \o Join(Tail(words))

(***************************************************************************)
(* pathlib primitives on path strings                                      *)
(***************************************************************************)
\* index of the last occurrence of character c in s, 0 when absent
LastIndex(s, c) ==
  IF \E i \in 1..Len(s) : s[i] = c
  THEN CHOOSE i \in 1..Len(s) : s[i] = c /\ \A j \in (i + 1)..Len(s) : s[j] # c
  ELSE 0

\* Path(p).name
PathName(p) == Drop(p, LastIndex(p, "/"))

\* str(Path(p).parent)
PathParent(p) ==
  IF LastIndex(p, "/") = 0 THEN <<".">> ELSE SubSeq(p, 1, LastIndex(p, "/") - 1)

\* Path(p).suffix: from the last dot of the name, unless that dot leads
\* or ends the name
PathSuffix(p) ==
  LET name == PathName(p)
      i == LastIndex(name, ".")
  IN  IF 1 < i /\ i < Len(name) THEN Drop(name, i - 1) ELSE <<>>

\* Path(p).stem
PathStem(p) ==
  LET name == PathName(p)
  IN  SubSeq(name, 1, Len(name) - Len(PathSuffix(p)))

\* the tests_dir the reorganizer is constructed with
tests_dir == <<"t">>

\* Path(a) / b
PathJoin(a, b) == a \o <<"/">> \o b

\* str(Path(p).relative_to(tests_dir))
RelativeTo(p) == IF p = tests_dir THEN <<".">> ELSE Drop(p, Len(tests_dir) + 1)

(***************************************************************************)
(* The file tree: F maps the path of every regular file to its content,    *)
(* D is the set of directory paths (tests_dir itself always exists).       *)
(***************************************************************************)
\* Path(p).exists()
Exists(F, D, p) == p \in DOMAIN F \/ p \in D \/ p = tests_dir

\* p lies in the subtree of directory d
Under(d, p) == StartsWith(p, d \o <<"/">>)

\* the orders a directory listing can come in: every arrangement of S
RECURSIVE Orders(_)
Orders(S) ==
  IF S = {} THEN { <<>> }
  ELSE UNION { { <<x>> \o w : w \in Orders(S \ {x}) } : x \in S }

\* the orders in which os.walk(tests_dir) (top-down) can yield the files of
\* the tree: the files of a directory before those of its subdirectories,
\* every subtree in one contiguous run, the listing order free otherwise
\* (tree is bound so that its two tables are computed once)
WalkOrders(F, D) ==
  UNION { { w \in Orders(DOMAIN F) :
              /\ \A i \in 1..Len(w) : \A j \in 1..i : w[j] \notin tree.deeper[w[i]]
              /\ \A d \in D : \A i \in 1..Len(w) : \A j \in (i + 2)..Len(w) :
                   (w[i] \in tree.inside[d] /\ w[j] \in tree.inside[d])
                     => \A k \in (i + 1)..(j - 1) : w[k] \in tree.inside[d] } :
          \* deeper: the files of the subtrees of the directory a file lies
          \* in; inside: the files of the subtree of a directory
          tree \in { [ deeper |-> [p \in DOMAIN F |->
                          { q \in DOMAIN F : Under(PathParent(p), PathParent(q)) }],
                       inside |-> [d \in D |-> { p \in DOMAIN F : Under(d, p) }] ] } }

\* the framework files analyze_current_structure skips
FrameworkFiles == { <<"T","e","s","t","U","t","i","l","i","t","i","e","s",".","c","p","p">>, <<"T","e","s","t","U","t","i","l","i","t","i","e","s",".","h">>,
                    <<"M","o","c","k","O","b","j","e","c","t",".","c","p","p">>, <<"M","o","c","k","O","b","j","e","c","t",".","h">> }

IsFrameworkFile_NoSkip(file) == FALSE

IsFrameworkFile(file) == file \in FrameworkFiles

\* the key of `structure` a walked file is appended to, <<>> when the file
\* is not considered at all
analyze_current_structure(p) ==
  LET file == PathName(p)
      rel_path == RelativeTo(PathParent(p))
  IN  IF ~ (EndsWith(file, <<".","c","p","p">>) \/ EndsWith(file, <<".","h">>)) THEN <<>>
      ELSE IF IsFrameworkFile(file) THEN <<>>
      ELSE IF Contains(<<"u","n","i","t">>, rel_path) \/ Contains(<<"t","e","s","t","_">>, file) THEN <<"u","n","i","t">>
      ELSE IF Contains(<<"i","n","t","e","g","r","a","t","i","o","n">>, rel_path) THEN <<"i","n","t","e","g","r","a","t","i","o","n">>
      ELSE IF Contains(<<"p","e","r","f","o","r","m","a","n","c","e">>, rel_path) THEN <<"p","e","r","f","o","r","m","a","n","c","e">>
      ELSE IF Contains(<<"c","o","n","t","r","o","l","l","e","r">>, rel_path) THEN <<"c","o","n","t","r","o","l","l","e","r">>
      ELSE IF Contains(<<"c","o","m","m","a","n","d">>, rel_path) THEN <<"c","o","m","m","a","n","d">>
      ELSE IF Contains(<<"f","a","c","t","o","r","y">>, rel_path) THEN <<"f","a","c","t","o","r","y">>
      ELSE <<"m","i","s","c">>

\* the keys of `structure`, in dict order
Categories == << <<"u","n","i","t">>, <<"i","n","t","e","g","r","a","t","i","o","n">>, <<"p","e","r","f","o","r","m","a","n","c","e">>, <<"c","o","n","t","r","o","l","l","e","r">>,
                 <<"c","o","m","m","a","n","d">>, <<"f","a","c","t","o","r","y">>, <<"m","i","s","c">> >>

\* category_map.get(category, 'Test')
category_map(category) ==
  IF category = <<"u","n","i","t">> THEN <<"U","n","i","t">>
  ELSE IF category = <<"i","n","t","e","g","r","a","t","i","o","n">> THEN <<"I","n","t","e","g","r","a","t","i","o","n">>
  ELSE IF category = <<"p","e","r","f","o","r","m","a","n","c","e">> THEN <<"P","e","r","f","o","r","m","a","n","c","e">>
  ELSE IF category = <<"c","o","n","t","r","o","l","l","e","r">> THEN <<"C","o","n","t","r","o","l","l","e","r">>
  ELSE IF category = <<"c","o","m","m","a","n","d">> THEN <<"C","o","m","m","a","n","d">>
  ELSE IF category = <<"f","a","c","t","o","r","y">> THEN <<"F","a","c","t","o","r","y">>
  ELSE <<"T","e","s","t">>

\* ''.join(word.capitalize() for word in parts)
pascal_case(parts) == Join([i \in 1..Len(parts) |-> Capitalize(parts[i])])

\* the special-case names, first match wins
special_case(old_name, generic) ==
  LET low == Lower(old_name)
  IN  IF Contains(<<"s","e","a","r","c","h">>, low) /\ Contains(<<"i","n","t","e","g","r","a","t","i","o","n">>, low) THEN <<"S","e","a","r","c","h","I","n","t","e","g","r","a","t","i","o","n">>
      ELSE IF Contains(<<"s","e","a","r","c","h">>, low) /\ Contains(<<"e","n","g","i","n","e">>, low) THEN <<"S","e","a","r","c","h","E","n","g","i","n","e">>
      ELSE IF Contains(<<"s","e","a","r","c","h">>, low) /\ Contains(<<"v","a","l","i","d","a","t","i","o","n">>, low) THEN <<"S","e","a","r","c","h","V","a","l","i","d","a","t","i","o","n">>
      ELSE IF Contains(<<"r","e","n","d","e","r","i","n","g">>, low) /\ Contains(<<"p","e","r","f","o","r","m","a","n","c","e">>, low) THEN <<"R","e","n","d","e","r","i","n","g","P","e","r","f","o","r","m","a","n","c","e">>
      ELSE IF Contains(<<"s","t","a","t","e">>, low) /\ Contains(<<"m","a","n","a","g","e","r">>, low) THEN <<"S","t","a","t","e","M","a","n","a","g","e","r">>
      ELSE IF Contains(<<"s","e","r","v","i","c","e">>, low) /\ Contains(<<"l","o","c","a","t","o","r">>, low) THEN <<"S","e","r","v","i","c","e","L","o","c","a","t","o","r">>
      ELSE IF Contains(<<"m","o","d","e","l">>, low) /\ Contains(<<"f","a","c","t","o","r","y">>, low) THEN <<"M","o","d","e","l","F","a","c","t","o","r","y">>
      ELSE generic

\* the cleaned stem: the four noise tokens removed, in the code's order
clean_name(old_name) ==
  Replace(Replace(Replace(Replace(old_name, <<"t","e","s","t","_">>, <<>>), <<"T","e","s","t">>, <<>>),
                  <<"_","n","e","w">>, <<>>), <<"_","t","e","s","t">>, <<>>)

generate_new_name_CppOnly(old_path, category) ==
  category_map(category) \o <<"_">>
    \o special_case(PathStem(old_path), pascal_case(Split(clean_name(PathStem(old_path)), "_")))
    \o <<"_","T","e","s","t",".","c","p","p">>

generate_new_name(old_path, category) ==
  LET old_name == PathStem(old_path)
      extension == PathSuffix(old_path)
      parts == Split(clean_name(old_name), "_")
  IN  category_map(category) \o <<"_">> \o special_case(old_name, pascal_case(parts))
        \o <<"_","T","e","s","t">> \o extension

\* tests_dir / target_dir / new_name for a file of the category
new_path(file_path, category) ==
  PathJoin(PathJoin(tests_dir, Capitalize(category)),
           generate_new_name(file_path, category))

IsSkippedDuplicate_Never(F, D, file_path) == FALSE

\* the `_new` duplicates generate_reorganization_plan skips
IsSkippedDuplicate(F, D, file_path) ==
  Contains(<<"_","n","e","w">>, file_path) /\ Exists(F, D, Replace(file_path, <<"_","n","e","w">>, <<>>))

\* whether the file gets an entry in rename_map
InPlan(F, D, file_path, category) ==
  /\ ~ IsSkippedDuplicate(F, D, file_path)
  /\ \/ PathName(file_path) # PathName(new_path(file_path, category))
     \/ PathParent(file_path) # PathParent(new_path(file_path, category))

\* for every file of the tree (F, D): the category it is filed under and
\* the new path the plan maps it to, <<>> for a file the plan has no entry
\* for (not considered, misc, skipped duplicate, already in place)
PlanItems(F, D) ==
  [p \in DOMAIN F |->
     CHOOSE item \in
       { IF category = <<>> \/ category = <<"m","i","s","c">> THEN <<>>
         ELSE IF ~ InPlan(F, D, p, category) THEN <<>>
         ELSE <<category, new_path(p, category)>> :
         category \in {analyze_current_structure(p)} } : TRUE]

\* rename_map as the sequence of its (old_path, new_path) items in
\* insertion order: category by category, the files of a category in the
\* order of the walk
RECURSIVE PlanFrom(_, _, _)
PlanFrom(items, walk, c) ==
  IF c > Len(Categories) THEN <<>>
  ELSE LET InCat(p) == items[p] # <<>> /\ items[p][1] = Categories[c]
           files == SelectSeq(walk, InCat)
       IN  [i \in 1..Len(files) |-> <<files[i], items[files[i]][2]>>]
             \o PlanFrom(items, walk, c + 1)

\* the rename_map built for the tree (F, D) walked in order walk
generate_reorganization_plan(F, D, walk) ==
  CHOOSE plan \in { PlanFrom(items, walk, 1) : items \in {PlanItems(F, D)} } : TRUE

\* the rename_maps generate_reorganization_plan can return for the tree:
\* one for every order of the walk
Plans(F, D) ==
  { PlanFrom(items, walk, 1) : items \in {PlanItems(F, D)}, walk \in WalkOrders(F, D) }

\* the keys of a rename_map
Keys(map) == { map[i][1] : i \in 1..Len(map) }

(***************************************************************************)
(* Reference rewriting                                                     *)
(***************************************************************************)
\* the four include forms update_includes rewrites for one entry
include_patterns(old_name, new_name) ==
  << << <<"#","i","n","c","l","u","d","e"," ","\"">> \o old_name \o <<"\"">>,       <<"#","i","n","c","l","u","d","e"," ","\"">> \o new_name \o <<"\"">> >>,
     << <<"#","i","n","c","l","u","d","e"," ","<">> \o old_name \o <<">">>,       <<"#","i","n","c","l","u","d","e"," ","<">> \o new_name \o <<">">> >>,
     << <<"#","i","n","c","l","u","d","e"," ","\"",".",".","/">> \o old_name \o <<"\"">>,    <<"#","i","n","c","l","u","d","e"," ","\"",".",".","/">> \o new_name \o <<"\"">> >>,
     << <<"#","i","n","c","l","u","d","e"," ","\"",".",".","/",".",".","/">> \o old_name \o <<"\"">>, <<"#","i","n","c","l","u","d","e"," ","\"",".",".","/",".",".","/">> \o new_name \o <<"\"">> >> >>

RECURSIVE ApplyPatterns(_, _)
ApplyPatterns(content, patterns) ==
  IF patterns = <<>> THEN content
  ELSE ApplyPatterns(Replace(content, Head(patterns)[1], Head(patterns)[2]), Tail(patterns))

\* the content update_includes computes for a file, entry by entry
RECURSIVE update_includes(_, _)
update_includes(content, map) ==
  IF map = <<>> THEN content
  ELSE update_includes(
         ApplyPatterns(content, include_patterns(PathName(Head(map)[1]), PathName(Head(map)[2]))),
         Tail(map))

\* str(rel).replace('\\', '/')
Slashes(s) == Replace(s, <<"\\">>, <<"/">>)

\* the two replacements update_cmake_files makes for one entry
cmake_entry(content, old_path, new_pth) ==
  Replace(Replace(content, PathName(old_path), PathName(new_pth)),
          Slashes(RelativeTo(old_path)), Slashes(RelativeTo(new_pth)))

\* the content update_cmake_files computes for a manifest, entry by entry
RECURSIVE update_cmake_files(_, _)
update_cmake_files(content, map) ==
  IF map = <<>> THEN content
  ELSE update_cmake_files(cmake_entry(content, Head(map)[1], Head(map)[2]), Tail(map))

\* rglob('*.cpp'), rglob('*.h')
IsSourceFile(p) == EndsWith(PathName(p), <<".","c","p","p">>) \/ EndsWith(PathName(p), <<".","h">>)

\* rglob('CMakeLists*.txt')
IsCMakeFile(p) ==
  /\ StartsWith(PathName(p), <<"C","M","a","k","e","L","i","s","t","s">>)
  /\ EndsWith(PathName(p), <<".","t","x","t">>)
  /\ Len(PathName(p)) >= Len(<<"C","M","a","k","e","L","i","s","t","s">>) + Len(<<".","t","x","t">>)

(***************************************************************************)
(* Filesystem operations                                                   *)
(***************************************************************************)
\* the directory and all its ancestors below tests_dir
RECURSIVE Ancestors(_)
Ancestors(d) ==
  IF d = tests_dir \/ LastIndex(d, "/") = 0 THEN {}
  ELSE {d} \cup Ancestors(PathParent(d))

\* Path.mkdir(parents=True, exist_ok=True)
Mkdir(D, d) == D \cup Ancestors(d)

\* old.with_suffix(old.suffix + '.bak')
backup_path(old) == old \o <<".","b","a","k">>

\* shutil.copy2(src, dst): dst is created or overwritten with src's content
Copy(F, src, dst) ==
  [p \in DOMAIN F \cup {dst} |-> IF p = dst THEN F[src] ELSE F[p]]

\* shutil.move(src, dst) onto a file path: os.rename, replacing dst
Move(F, src, dst) ==
  [p \in (DOMAIN F \ {src}) \cup {dst} |-> IF p = dst THEN F[src] ELSE F[p]]

\* not any(dir_path.iterdir()): no file and no directory directly inside d
IsEmptyDir(F, D, d) == ~ \E p \in DOMAIN F \cup D : PathParent(p) = d

\* os.walk(topdown=False) with the rmdir loop: a directory is visited after
\* all directories below it and removed when it is empty at that moment;
\* todo are the directories not visited yet, the result is what remains
RECURSIVE CleanupWalk(_, _, _)
CleanupWalk(F, D, todo) ==
  IF todo = {} THEN D
  ELSE LET d == CHOOSE x \in todo : ~ \E y \in todo : Under(x, y)
       IN  CleanupWalk(F, IF IsEmptyDir(F, D, d) THEN D \ {d} ELSE D, todo \ {d})

EmptyDirs_TopDown(F, D) == { d \in D : IsEmptyDir(F, D, d) }

\* the directories the bottom-up walk removes
EmptyDirs(F, D) == D \ CleanupWalk(F, D, D)

\* the directories execute_reorganization creates up front
new_dirs == << <<"U","n","i","t">>, <<"I","n","t","e","g","r","a","t","i","o","n">>, <<"P","e","r","f","o","r","m","a","n","c","e">>, <<"C","o","n","t","r","o","l","l","e","r">>,
               <<"C","o","m","m","a","n","d">>, <<"F","a","c","t","o","r","y">>, <<"F","r","a","m","e","w","o","r","k">>, <<"U","t","i","l","i","t","i","e","s">> >>

(***************************************************************************)
(* The trees the reorganizer is run on                                     *)
(***************************************************************************)
\* the largest number of files in the initial tree
MaxFiles == 3

\* the files an initial tree is drawn from, each with its content
Candidates ==
  { << <<"t","/","u","n","i","t","/","a",".","c","p","p">>,                   <<"#","i","n","c","l","u","d","e"," ","\"","a",".","h","\"","\n","#","i","n","c","l","u","d","e"," ","\"","x","t","e","s","t",".","h","\"","\n">> >>,
    << <<"t","/","u","n","i","t","/","a",".","h">>,                     <<"/","/","a","\n">> >>,
    << <<"t","/","u","n","i","t","/","a","_","n","e","w",".","c","p","p">>,               <<"/","/","n","\n">> >>,
    << <<"t","/","u","n","i","t","/","t","e","s","t","_","a",".","c","p","p">>,              <<"#","i","n","c","l","u","d","e"," ","<","a",".","h",">","\n">> >>,
    << <<"t","/","u","n","i","t","/","A","_","T","e","s","t",".","c","p","p">>,              <<"/","/","t","\n">> >>,
    << <<"t","/","u","n","i","t","/","a",".","c","p","p",".","b","a","k">>,               <<"/","/","o","\n">> >>,
    << <<"t","/","c","o","n","t","r","o","l","l","e","r","/","t","e","s","t","_","a",".","c","p","p">>,        <<"/","/","c","\n">> >>,
    << <<"t","/","c","o","n","t","r","o","l","l","e","r","/","a",".","c","p","p">>,             <<"#","i","n","c","l","u","d","e"," ","\"",".",".","/","a",".","h","\"","\n">> >>,
    << <<"t","/","c","o","n","t","r","o","l","l","e","r","/","A","c","t","i","o","n","M","a","p","T","e","s","t",".","c","p","p">>, <<"#","i","n","c","l","u","d","e"," ","\"","A","c","t","i","o","n","M","a","p","T","e","s","t",".","h","\"","\n">> >>,
    << <<"t","/","U","n","i","t","/","U","n","i","t","_","A","_","T","e","s","t",".","c","p","p">>,         <<"/","/","m","\n">> >>,
    << <<"t","/","u","n","i","t","/","x","t","e","s","t",".","h">>,                 <<"/","/","x","\n">> >>,
    << <<"t","/","U","n","i","t","/","U","n","i","t","_","X","t","e","s","t","_","T","e","s","t",".","h">>,       <<"/","/","u","\n">> >>,
    << <<"t","/","u","n","i","t","/","T","e","s","t","U","t","i","l","i","t","i","e","s",".","c","p","p">>,       <<"#","i","n","c","l","u","d","e"," ","\"",".",".","/",".",".","/","a",".","h","\"","\n">> >>,
    << <<"t","/","M","o","c","k","O","b","j","e","c","t",".","h">>,                 <<"/","/","k","\n">> >>,
    << <<"t","/","C","M","a","k","e","L","i","s","t","s",".","t","x","t">>,               <<"A","_","T","e","s","t",".","c","p","p","\n","c","o","n","t","r","o","l","l","e","r","/","a",".","c","p","p","\n","u","n","i","t","/","x","t","e","s","t",".","h","\n","b",".","t","x","t","\n">> >> }

\* the tree holding the chosen candidates
TreeOf(chosen) ==
  [p \in { c[1] : c \in chosen } |-> (CHOOSE c \in chosen : c[1] = p)[2]]

\* the directories a tree's files lie in
DirsOf(F) == UNION { Ancestors(PathParent(p)) : p \in DOMAIN F }

\* the regular files under tests_dir: path -> content
\* the empty directories an initial tree may hold besides those of its files
EmptyDirChoices == { {}, Ancestors(<<"t","/","e","/","f">>) }

VARIABLE files
\* the directories under tests_dir
VARIABLE dirs
\* self.dry_run
VARIABLE dry_run
\* the statement execute_reorganization is at
VARIABLE pc
\* the plan: the (old_path, new_path) items in dict order
VARIABLE rename_map
\* the item the move loop is at
VARIABLE idx
\* the sources the move loop has backed up and moved
VARIABLE moved
\* the files whose rewrite raised: an "Error updating ..." line was printed
VARIABLE errors_printed
\* the files before the run
VARIABLE files0
\* the directories before the run
VARIABLE dirs0

\* the arguments and the return value of the generate_new_name call under
\* test: [old_path, category, new_name], new_name <<>> before the call
VARIABLE name_call
\* TestMigrator.files_processed
VARIABLE files_processed
\* TestMigrator.files_modified
VARIABLE files_modified
\* the last TestMigrator.migrate_file call: [filepath, result], <<>> before
\* the first call
VARIABLE migrate_call

\* what execute_reorganization has no access to: the state of the naming
\* test and of the TestMigrator
other_vars == << name_call, files_processed, files_modified, migrate_call >>

vars == << files, dirs, dry_run, pc, rename_map, idx, moved, errors_printed, files0, dirs0,
          name_call, files_processed, files_modified, migrate_call >>

\* no generate_new_name test and no TestMigrator in this run
OthersIdle ==
  /\ name_call = <<>>
  /\ files_processed = 0
  /\ files_modified = 0
  /\ migrate_call = <<>>

Init ==
  /\ \E chosen \in SUBSET Candidates :
       /\ Cardinality(chosen) <= MaxFiles
       /\ files = TreeOf(chosen)
  /\ \E empty \in EmptyDirChoices : dirs = DirsOf(files) \cup empty
  /\ dry_run \in BOOLEAN
  /\ pc = "plan"
  /\ rename_map = <<>>
  /\ idx = 1
  /\ moved = {}
  /\ errors_printed = {}
  /\ files0 = files
  /\ dirs0 = dirs
  /\ OthersIdle

(***************************************************************************)
(* execute_reorganization, statement by statement                          *)
(***************************************************************************)
\* rename_map, _ = self.generate_reorganization_plan(); return when empty
BuildPlan ==
  /\ pc = "plan"
  /\ rename_map' \in Plans(files, dirs)
  /\ pc' = IF rename_map' = <<>> THEN "done" ELSE "mkdirs"
  /\ UNCHANGED << files, dirs, dry_run, idx, moved, errors_printed, files0, dirs0 >>
  /\ UNCHANGED other_vars

\* the loop creating the new directory structure
CreateDirs ==
  /\ pc = "mkdirs"
  /\ dirs' = IF dry_run THEN dirs
             ELSE dirs \cup { PathJoin(tests_dir, new_dirs[i]) : i \in
                       { k \in 1..Len(new_dirs) :
                           ~ Exists(files, dirs, PathJoin(tests_dir, new_dirs[k])) } }
  /\ pc' = "entry"
  /\ idx' = 1
  /\ UNCHANGED << files, dry_run, rename_map, moved, errors_printed, files0, dirs0 >>
  /\ UNCHANGED other_vars

\* head of the move loop: the loop ends, or the item is skipped because its
\* source does not exist, or printed only (dry run), or processed
NextEntry ==
  /\ pc = "entry"
  /\ IF idx > Len(rename_map)
     THEN pc' = "includes" /\ idx' = idx
     ELSE IF ~ Exists(files, dirs, rename_map[idx][1]) \/ dry_run
          THEN pc' = "entry" /\ idx' = idx + 1
          ELSE pc' = "mkparent" /\ idx' = idx
  /\ UNCHANGED << files, dirs, dry_run, rename_map, moved, errors_printed, files0, dirs0 >>
  /\ UNCHANGED other_vars

\* new.parent.mkdir(parents=True, exist_ok=True)
MakeParent ==
  /\ pc = "mkparent"
  /\ dirs' = Mkdir(dirs, PathParent(rename_map[idx][2]))
  /\ pc' = "backup"
  /\ UNCHANGED << files, dry_run, rename_map, idx, moved, errors_printed, files0, dirs0 >>
  /\ UNCHANGED other_vars

\* shutil.copy2(old, backup_path)
Backup ==
  /\ pc = "backup"
  /\ files' = Copy(files, rename_map[idx][1], backup_path(rename_map[idx][1]))
  /\ pc' = "move"
  /\ UNCHANGED << dirs, dry_run, rename_map, idx, moved, errors_printed, files0, dirs0 >>
  /\ UNCHANGED other_vars

MoveFile_ConsumesPlan ==
  /\ pc = "move"
  /\ files' = Move(files, rename_map[idx][1], rename_map[idx][2])
  /\ pc' = "entry"
  /\ rename_map' = [i \in 1..(Len(rename_map) - 1) |->
                      IF i < idx THEN rename_map[i] ELSE rename_map[i + 1]]
  /\ moved' = moved \cup {rename_map[idx][1]}
  /\ UNCHANGED << dirs, dry_run, idx, errors_printed, files0, dirs0 >>
  /\ UNCHANGED other_vars

\* shutil.move(str(old), str(new))
MoveFile ==
  /\ pc = "move"
  /\ files' = Move(files, rename_map[idx][1], rename_map[idx][2])
  /\ pc' = "entry"
  /\ idx' = idx + 1
  /\ moved' = moved \cup {rename_map[idx][1]}
  /\ UNCHANGED << dirs, dry_run, rename_map, errors_printed, files0, dirs0 >>
  /\ UNCHANGED other_vars

WritesContent_NoGuard(dry) == TRUE

\* whether update_includes / update_cmake_files write the new content
WritesContent(dry) == ~ dry

\* the two rglob loops calling update_includes on every .cpp and .h file
UpdateIncludes ==
  /\ pc = "includes"
  /\ files' = [p \in DOMAIN files |->
                 IF IsSourceFile(p) /\ WritesContent(dry_run)
                 THEN update_includes(files[p], rename_map)
                 ELSE files[p]]
  /\ pc' = "cmake"
  /\ UNCHANGED << dirs, dry_run, rename_map, idx, moved, errors_printed, files0, dirs0 >>
  /\ UNCHANGED other_vars

\* self.update_cmake_files(rename_map)
UpdateCMake ==
  /\ pc = "cmake"
  /\ files' = [p \in DOMAIN files |->
                 IF IsCMakeFile(p) /\ WritesContent(dry_run)
                 THEN update_cmake_files(files[p], rename_map)
                 ELSE files[p]]
  /\ pc' = "cleanup"
  /\ UNCHANGED << dirs, dry_run, rename_map, idx, moved, errors_printed, files0, dirs0 >>
  /\ UNCHANGED other_vars

\* the bottom-up walk removing empty directories
Cleanup ==
  /\ pc = "cleanup"
  /\ dirs' = IF dry_run THEN dirs ELSE dirs \ EmptyDirs(files, dirs)
  /\ pc' = "done"
  /\ UNCHANGED << files, dry_run, rename_map, idx, moved, errors_printed, files0, dirs0 >>
  /\ UNCHANGED other_vars

Next ==
  \/ BuildPlan
  \/ CreateDirs
  \/ NextEntry
  \/ MakeParent
  \/ Backup
  \/ MoveFile
  \/ UpdateIncludes
  \/ UpdateCMake
  \/ Cleanup

Spec == Init /\ [][Next]_vars

(***************************************************************************)
(* The same execution in an environment where I/O operations can fail      *)
(***************************************************************************)
\* mkdir, shutil.copy2 or shutil.move raises (permissions, disk full, ...):
\* the move loop has no try/except, so the exception leaves
\* execute_reorganization and main, and the interpreter exits
RaiseIOError ==
  /\ pc \in {"mkparent", "backup", "move"}
  /\ pc' = "crashed"
  /\ UNCHANGED << files, dirs, dry_run, rename_map, idx, moved, errors_printed, files0, dirs0 >>
  /\ UNCHANGED other_vars

\* update_includes raises on one file (open or read fails): the except
\* clause prints the error and returns False, the loops go on
UpdateIncludesError ==
  /\ pc = "includes"
  /\ \E bad \in { p \in DOMAIN files : IsSourceFile(p) } :
       /\ files' = [p \in DOMAIN files |->
                      IF IsSourceFile(p) /\ p # bad /\ WritesContent(dry_run)
                      THEN update_includes(files[p], rename_map)
                      ELSE files[p]]
       /\ errors_printed' = errors_printed \cup {bad}
  /\ pc' = "cmake"
  /\ UNCHANGED << dirs, dry_run, rename_map, idx, moved, files0, dirs0 >>
  /\ UNCHANGED other_vars

\* update_cmake_files raises on one manifest: the except clause prints the
\* error, the loop goes on
UpdateCMakeError ==
  /\ pc = "cmake"
  /\ \E bad \in { p \in DOMAIN files : IsCMakeFile(p) } :
       /\ files' = [p \in DOMAIN files |->
                      IF IsCMakeFile(p) /\ p # bad /\ WritesContent(dry_run)
                      THEN update_cmake_files(files[p], rename_map)
                      ELSE files[p]]
       /\ errors_printed' = errors_printed \cup {bad}
  /\ pc' = "cleanup"
  /\ UNCHANGED << dirs, dry_run, rename_map, idx, moved, files0, dirs0 >>
  /\ UNCHANGED other_vars

NextIO ==
  \/ Next
  \/ RaiseIOError
  \/ UpdateIncludesError
  \/ UpdateCMakeError

SpecIO == Init /\ [][NextIO]_vars

\* the exit status of the script: main returns 0 once execute_reorganization
\* has returned; an uncaught exception ends the interpreter with status 1;
\* -1 while the script is running
exit_code == IF pc = "done" THEN 0 ELSE IF pc = "crashed" THEN 1 ELSE -1

(***************************************************************************)
(* generate_new_name called on its own, on stems built from noise tokens   *)
(***************************************************************************)
\* the tokens generate_new_name removes from a stem
NoiseTokens == { <<"t","e","s","t","_">>, <<"T","e","s","t">>, <<"_","n","e","w">>, <<"_","t","e","s","t">> }

\* the pieces the stems are built of: the noise tokens, the same tokens in
\* another letter case, and two plain words
NameTokens == NoiseTokens \cup { <<"T","E","S","T","_">>, <<"T","E","S","T">>, <<"_","N","E","W">>, <<"_","T","E","S","T">>, <<"f","o","o">>, <<"B","a","r">> }

\* the largest number of pieces in a stem
MaxTokens == 2

\* the sequences of pieces
TokenSeqs == UNION { [1..n -> NameTokens] : n \in 1..MaxTokens }

\* the categories the naming test passes
NameCategories == { <<"u","n","i","t">>, <<"c","o","n","t","r","o","l","l","e","r">> }

\* no reorganization in this run: an empty tree, nothing planned
ReorganizerIdle ==
  /\ files = <<>> /\ dirs = {} /\ dry_run = FALSE
  /\ pc = "idle" /\ rename_map = <<>> /\ idx = 1
  /\ moved = {} /\ errors_printed = {}
  /\ files0 = <<>> /\ dirs0 = {}

InitNames ==
  /\ \E seq \in TokenSeqs, category \in NameCategories :
       name_call = [ old_path |-> PathJoin(PathJoin(tests_dir, category), Join(seq) \o <<".","c","p","p">>),
                     category |-> category,
                     new_name |-> <<>> ]
  /\ files_processed = 0 /\ files_modified = 0 /\ migrate_call = <<>>
  /\ ReorganizerIdle

\* new_name = self.generate_new_name(old_path, category)
GenerateNewName ==
  /\ name_call.new_name = <<>>
  /\ name_call' = [name_call EXCEPT
                     !.new_name = generate_new_name(name_call.old_path, name_call.category)]
  /\ UNCHANGED << files, dirs, dry_run, pc, rename_map, idx, moved, errors_printed, files0, dirs0 >>
  /\ UNCHANGED << files_processed, files_modified, migrate_call >>

NextNames == GenerateNewName

SpecNames == InitNames /\ [][NextNames]_vars

(***************************************************************************)
(* scripts/migrate_tests.py: TestMigrator                                  *)
(***************************************************************************)
\* the characters \s matches
Whitespace == { " ", "\t", "\n", "\r", "\f" }

\* the number of whitespace characters of s from index a on
RECURSIVE SpaceRun(_, _)
SpaceRun(s, a) ==
  IF a <= Len(s) /\ s[a] \in Whitespace THEN 1 + SpaceRun(s, a + 1) ELSE 0

\* the index where a match of  #include\s+[<"].*?[>"]  beginning at index i
\* ends, 0 when there is none; with line_end the closing character must be
\* followed by a newline, as in  (#include\s+[<"].*?[>"]\n)
IncludeMatchEnd(s, i, line_end) ==
  LET a == i + Len(<<"#","i","n","c","l","u","d","e">>)
      q == a + SpaceRun(s, a)
      closes == { j \in (q + 1)..Len(s) :
                    /\ s[j] \in { ">", "\"" }
                    /\ \A k \in (q + 1)..(j - 1) : s[k] # "\n"
                    /\ line_end => (j < Len(s) /\ s[j + 1] = "\n") }
  IN  IF /\ StartsWith(Drop(s, i - 1), <<"#","i","n","c","l","u","d","e">>)
         /\ q > a
         /\ q <= Len(s)
         /\ s[q] \in { "<", "\"" }
         /\ closes # {}
      THEN CHOOSE j \in closes : \A k \in closes : j <= k
      ELSE 0

\* the end of the leftmost such match in s, 0 when s has none
FirstIncludeEnd(s, line_end) ==
  LET starts == { i \in 1..Len(s) : IncludeMatchEnd(s, i, line_end) # 0 }
  IN  IF starts = {} THEN 0
      ELSE IncludeMatchEnd(s, CHOOSE i \in starts : \A k \in starts : i <= k, line_end)

\* content[:pos] + text + content[pos:]
InsertAt(content, pos, text) ==
  SubSeq(content, 1, pos) \o text \o Drop(content, pos)

includes_to_add ==
  << <<".",".","/",".",".","/","a","p","p","/","c","o","n","t","r","o","l","l","e","r","/","S","e","r","v","i","c","e","L","o","c","a","t","o","r",".","h">>,
     <<".",".","/",".",".","/","a","p","p","/","c","o","n","t","r","o","l","l","e","r","/","S","t","a","t","e","M","a","n","a","g","e","r",".","h">>,
     <<".",".","/",".",".","/","a","p","p","/","c","o","n","t","r","o","l","l","e","r","/","E","v","e","n","t","B","u","s",".","h">> >>

\* the loop over includes_to_add: an include that is absent while its class
\* name occurs is inserted on the line after the first include line
RECURSIVE AddIncludes(_, _)
AddIncludes(content, todo) ==
  IF todo = <<>> THEN content
  ELSE LET include == Head(todo)
           filename == Replace(PathName(include), <<".","h">>, <<>>)
           pos == FirstIncludeEnd(content, TRUE)
       IN  IF ~ Contains(include, content) /\ Contains(filename, content) /\ pos # 0
           THEN AddIncludes(InsertAt(content, pos + 1,
                                     <<"#","i","n","c","l","u","d","e"," ","\"">> \o include \o <<"\"","\n">>), Tail(todo))
           ELSE AddIncludes(content, Tail(todo))

_migrate_includes(content) ==
  LET pos == FirstIncludeEnd(content, FALSE)
      first == IF ~ Contains(<<"T","e","s","t","U","t","i","l","i","t","i","e","s",".","h">>, content) /\ pos # 0
               THEN InsertAt(content, pos, <<"\n","#","i","n","c","l","u","d","e"," ","\"",".",".","/","T","e","s","t","U","t","i","l","i","t","i","e","s",".","h","\"">>)
               ELSE content
  IN  AddIncludes(first, includes_to_add)

\* re.sub of the class pattern: a content without the word QObject has no
\* match and is returned as it is (other contents are not modelled)
_migrate_base_class(content) ==
  CASE ~ Contains(<<"Q","O","b","j","e","c","t">>, content) -> content

\* the four re.sub of the method patterns: a content without the word void has
\* no match and is returned as it is (other contents are not modelled)
_migrate_setup_teardown(content) ==
  CASE ~ Contains(<<"v","o","i","d">>, content) -> content

\* the index of the first ")" of s that no newline precedes, 0 when none
CloseIndex(s) ==
  LET closes == { j \in 1..Len(s) : s[j] = ")" /\ \A k \in 1..(j - 1) : s[k] # "\n" }
  IN  IF closes = {} THEN 0 ELSE CHOOSE j \in closes : \A k \in closes : j <= k

\* re.sub(name\((.*?)\), open \1 ")", content): every call of name whose
\* closing parenthesis is on the same line, left to right
RECURSIVE SubCall(_, _, _)
SubCall(content, name, open) ==
  IF content = <<>> THEN <<>>
  ELSE LET rest == Drop(content, Len(name) + 1)
           n == CloseIndex(rest)
       IN  IF StartsWith(content, name \o <<"(">>) /\ n # 0
           THEN open \o SubSeq(rest, 1, n) \o SubCall(Drop(rest, n), name, open)
           ELSE <<content[1]>> \o SubCall(Tail(content), name, open)

\* the assertion replacements in the order of the dict, then the timeout
\* pattern; the two-argument patterns and the while pattern have no match in
\* a content without their leading word (other contents are not modelled)
_migrate_assertions(content) ==
  CASE /\ ~ Contains(<<"Q","V","E","R","I","F","Y","2","(">>, content)
       /\ ~ Contains(<<"a","s","s","e","r","t","E","q","u","a","l","s","(">>, content)
       /\ ~ Contains(<<"w","h","i","l","e">>, content)
       -> SubCall(SubCall(content, <<"a","s","s","e","r","t","T","r","u","e">>, <<"Q","V","E","R","I","F","Y","(">>),
                  <<"a","s","s","e","r","t","F","a","l","s","e">>, <<"Q","V","E","R","I","F","Y","(","!">>)

\* the singleton patterns are applied only when ServiceLocator occurs, and
\* have no match without the text instance()-> or getInstance()->
_migrate_service_usage(content) ==
  IF ~ Contains(<<"S","e","r","v","i","c","e","L","o","c","a","t","o","r">>, content) THEN content
  ELSE CASE /\ ~ Contains(<<":",":","i","n","s","t","a","n","c","e","(",")","-",">">>, content)
            /\ ~ Contains(<<":",":","g","e","t","I","n","s","t","a","n","c","e","(",")","-",">">>, content)
            -> content

\* the dict of _migrate_wait_statements, as (key, value) pairs
wait_replacements ==
  << << <<"Q","T","e","s","t",":",":","q","W","a","i","t","\\","(","(","\\","d","+",")","\\",")">>, <<"w","a","i","t","M","s","(","\\","1",")">> >>,
     << <<"Q","T","h","r","e","a","d",":",":","m","s","l","e","e","p","\\","(","(","\\","d","+",")","\\",")">>, <<"w","a","i","t","M","s","(","\\","1",")">> >>,
     << <<"Q","T","h","r","e","a","d",":",":","s","l","e","e","p","\\","(","(","\\","d","+",")","\\",")">>, <<"w","a","i","t","M","s","(","\\","1"," ","*"," ","1","0","0","0",")">> >>,
     << <<"Q","C","o","r","e","A","p","p","l","i","c","a","t","i","o","n",":",":","p","r","o","c","e","s","s","E","v","e","n","t","s","\\","(","\\",")">>, <<"p","r","o","c","e","s","s","E","v","e","n","t","s","(",")">> >> >>

\* what a pass returns in place of a content when it raises
ValueError == << "ValueError" >>

\* for pattern, replacement in replacements: iterating a dict yields its
\* keys, and unpacking a key into two names raises ValueError unless the key
\* has exactly two characters
RECURSIVE WaitLoop(_, _)
WaitLoop(content, keys) ==
  IF keys = <<>> THEN content
  ELSE IF Len(Head(keys)) # Len(<< "pattern", "replacement" >>) THEN ValueError
  ELSE WaitLoop(Replace(content, << Head(keys)[1] >>, << Head(keys)[2] >>), Tail(keys))

_migrate_wait_statements(content) ==
  WaitLoop(content, [i \in 1..Len(wait_replacements) |-> wait_replacements[i][1]])

\* the five passes migrate_file applies before _migrate_wait_statements
FirstPasses(content) ==
  _migrate_service_usage(
    _migrate_assertions(
      _migrate_setup_teardown(
        _migrate_base_class(
          _migrate_includes(content)))))

\* filepath.with_suffix(suffix)
with_suffix(filepath, suffix) ==
  SubSeq(filepath, 1, Len(filepath) - Len(PathSuffix(filepath))) \o suffix

\* open(path, 'w').write(text): path is created or truncated
WriteText(F, path, text) ==
  [p \in DOMAIN F \cup {path} |-> IF p = path THEN text ELSE F[p]]

\* the files migrate_file is called on, and the contents they can have
MigratePaths == { <<"t","/","t","e","s","t","_","a",".","c","p","p">>, <<"t","/","t","e","s","t","_","b",".","c","p","p">> }

MigrateContents ==
  { <<"a","s","s","e","r","t","T","r","u","e","(","x",")",";","\n">>,
    <<"i","n","t"," ","x",";","\n">>,
    <<"#","i","n","c","l","u","d","e"," ","\"","a",".","h","\"","\n","a","s","s","e","r","t","F","a","l","s","e","(","f","(","y",")",")",";","\n">>,
    <<"#","i","n","c","l","u","d","e"," ","\"",".",".","/","T","e","s","t","U","t","i","l","i","t","i","e","s",".","h","\"","\n">> }

\* the number of migrate_file calls of one run
MaxCalls == 2

\* TestMigrator(dry_run) on a tree holding some of the files
InitMigrate ==
  /\ \E present \in SUBSET MigratePaths : files \in [present -> MigrateContents]
  /\ dirs = {}
  /\ dry_run \in BOOLEAN
  /\ files_processed = 0
  /\ files_modified = 0
  /\ migrate_call = <<>>
  /\ name_call = <<>>
  /\ pc = "idle"
  /\ rename_map = <<>>
  /\ idx = 1
  /\ moved = {}
  /\ errors_printed = {}
  /\ files0 = files
  /\ dirs0 = {}

\* migrate_file(filepath), the finally clause included.  The except clause
\* catches the error of opening a missing file and the error a pass raises.
migrate_file ==
  /\ files_processed < MaxCalls
  /\ \E filepath \in MigratePaths :
       \E content \in { IF filepath \in DOMAIN files
                        THEN _migrate_wait_statements(FirstPasses(files[filepath]))
                        ELSE << "FileNotFoundError" >> } :
         IF filepath \notin DOMAIN files \/ content = ValueError
         THEN /\ errors_printed' = errors_printed \cup {filepath}
              /\ migrate_call' = [filepath |-> filepath, result |-> FALSE]
              /\ UNCHANGED << files, files_modified >>
         ELSE IF content # files[filepath]
         THEN /\ files' = IF dry_run THEN files
                          ELSE WriteText(WriteText(files,
                                           with_suffix(filepath, <<".","c","p","p",".","b","a","k">>),
                                           files[filepath]),
                                         filepath, content)
              /\ files_modified' = files_modified + 1
              /\ migrate_call' = [filepath |-> filepath, result |-> TRUE]
              /\ UNCHANGED errors_printed
         ELSE /\ migrate_call' = [filepath |-> filepath, result |-> FALSE]
              /\ UNCHANGED << files, files_modified, errors_printed >>
  /\ files_processed' = files_processed + 1
  /\ UNCHANGED << dirs, dry_run, pc, rename_map, idx, moved, files0, dirs0, name_call >>

NextMigrate == migrate_file

SpecMigrate == InitMigrate /\ [][NextMigrate]_vars

(***************************************************************************)
(* Properties                                                              *)
(***************************************************************************)
\* a non-dry-run execution that has returned
Finished == pc = "done" /\ ~ dry_run

\* the plan has been built
Planned == pc # "plan"

\* C1: a dry run mutates nothing: at every point of a dry-run execution the
\* set of files, every file's content and the set of directories are those
\* before the call.
C1_DryRunNoMutation == dry_run => (files = files0 /\ dirs = dirs0)

\* a dry run that returned with a plan whose rewrite would have changed a
\* source file and whose moves would have moved a file
C1_Witness ==
  /\ dry_run /\ pc = "done" /\ rename_map # <<>>
  /\ \E p \in DOMAIN files :
       IsSourceFile(p) /\ update_includes(files[p], rename_map) # files[p]
  /\ \E i \in 1..Len(rename_map) : rename_map[i][1] \in DOMAIN files

\* C2: no two distinct keys of the plan map to the same target path.
C2_NoTwoKeysSameTarget ==
  \A i, j \in 1..Len(rename_map) :
    rename_map[i][2] = rename_map[j][2] => i = j

\* the files of the initial tree that the plan builder gives a target
Planned0(p) ==
  /\ analyze_current_structure(p) # <<>>
  /\ analyze_current_structure(p) # <<"m","i","s","c">>
  /\ InPlan(files0, dirs0, p, analyze_current_structure(p))

\* C3: when two distinct source files generate the same target path, the
\* plan contains neither of them as a key.
C3_CollidingSourcesExcluded ==
  Planned =>
    \A p, q \in DOMAIN files0 :
      ( /\ p # q /\ Planned0(p) /\ Planned0(q)
        /\ new_path(p, analyze_current_structure(p))
             = new_path(q, analyze_current_structure(q)) )
      => (p \notin Keys(rename_map) /\ q \notin Keys(rename_map))

\* C4: after a completed non-dry-run execution, building the plan again on
\* the resulting tree yields the empty plan.
C4_PlanIdempotent ==
  Finished =>
    \A walk \in WalkOrders(files, dirs) :
      generate_reorganization_plan(files, dirs, walk) = <<>>

\* C5: once both rewrite passes have run, applying them again with the same
\* plan changes no file content.
C5_RewriteIdempotent ==
  (pc \in {"cleanup", "done"} /\ ~ dry_run /\ rename_map # <<>>) =>
    \A p \in DOMAIN files :
      /\ IsSourceFile(p) => update_includes(files[p], rename_map) = files[p]
      /\ IsCMakeFile(p) => update_cmake_files(files[p], rename_map) = files[p]

\* C6: controller/ActionMapTest.cpp is classified Controller and the plan
\* maps it to Controller/Controller_ActionMap_Test.cpp (the capitalisation
\* of the words of the stem kept).
C6_ActionMapKeepsCase ==
  (Planned /\ <<"t","/","c","o","n","t","r","o","l","l","e","r","/","A","c","t","i","o","n","M","a","p","T","e","s","t",".","c","p","p">> \in DOMAIN files0) =>
    /\ analyze_current_structure(<<"t","/","c","o","n","t","r","o","l","l","e","r","/","A","c","t","i","o","n","M","a","p","T","e","s","t",".","c","p","p">>) = <<"c","o","n","t","r","o","l","l","e","r">>
    /\ \E i \in 1..Len(rename_map) :
         rename_map[i] = << <<"t","/","c","o","n","t","r","o","l","l","e","r","/","A","c","t","i","o","n","M","a","p","T","e","s","t",".","c","p","p">>,
                            <<"t","/","C","o","n","t","r","o","l","l","e","r","/","C","o","n","t","r","o","l","l","e","r","_","A","c","t","i","o","n","M","a","p","_","T","e","s","t",".","c","p","p">> >>

\* C7: after a non-dry-run execution, for every plan entry that was
\* processed the source path no longer exists and <source>.bak holds the
\* content the source had before the run.
C7_SourceGoneBackupKept ==
  Finished =>
    \A old \in moved :
      /\ old \notin DOMAIN files
      /\ backup_path(old) \in DOMAIN files
      /\ files[backup_path(old)] = files0[old]

\* C8: after a non-dry-run execution no .cpp/.h file under root contains an
\* include of a plan entry's old name in any of the four recognised forms.
C8_NoOldIncludeRemains ==
  Finished =>
    \A i \in 1..Len(rename_map) : \A p \in DOMAIN files :
      IsSourceFile(p) =>
        \A k \in 1..4 :
          ~ Contains(include_patterns(PathName(rename_map[i][1]),
                                      PathName(rename_map[i][2]))[k][1], files[p])

\* the lines of a manifest
Lines(content) == Split(content, "\n")

\* the manifest line names the file: bare, or as the last segment of a path
Lists(line, name) == line = name \/ EndsWith(line, <<"/">> \o name)

\* C9: after update_cmake_files, every manifest line that listed a plan
\* entry's old filename lists that entry's new filename, and every line
\* that contained no entry's old filename is unchanged.
C9_ManifestLinesRewritten ==
  (pc \in {"cleanup", "done"} /\ ~ dry_run /\ rename_map # <<>>) =>
    \A p \in DOMAIN files0 :
      (IsCMakeFile(p) /\ p \in DOMAIN files) =>
        /\ Len(Lines(files[p])) = Len(Lines(files0[p]))
        /\ \A n \in 1..Len(Lines(files0[p])) :
             /\ \A i \in 1..Len(rename_map) :
                  Lists(Lines(files0[p])[n], PathName(rename_map[i][1]))
                    => Lists(Lines(files[p])[n], PathName(rename_map[i][2]))
             /\ (\A i \in 1..Len(rename_map) :
                   ~ Contains(PathName(rename_map[i][1]), Lines(files0[p])[n]))
                  => Lines(files[p])[n] = Lines(files0[p])[n]

\* the framework-support files of the initial tree
Framework0 == { p \in DOMAIN files0 : PathName(p) \in FrameworkFiles }

C11_LaterEntriesProcessed ==
  pc = "crashed" =>
    \A i \in (idx + 1)..Len(rename_map) :
      rename_map[i][1] \in DOMAIN files => rename_map[i][1] \in moved

\* C12: the backup step never overwrites an existing file at the backup
\* path: when <source>.bak exists, the step leaves its content unchanged and
\* does not go on to the move.
C12_BackupNeverOverwrites ==
  [][(pc = "backup" /\ backup_path(rename_map[idx][1]) \in DOMAIN files) =>
       ( /\ files'[backup_path(rename_map[idx][1])] = files[backup_path(rename_map[idx][1])]
         /\ pc' # "move" )]_vars

\* C13: whenever a rewrite pass changes the content of a file, a backup
\* copy holding the content from before the change lies alongside it.
C13_RewriteBacksUpFirst ==
  [][(pc = "includes" \/ pc = "cmake") =>
       \A p \in DOMAIN files :
         (p \in DOMAIN files' /\ files'[p] # files[p]) =>
           ( /\ backup_path(p) \in DOMAIN files'
             /\ files'[backup_path(p)] = files[p] )]_vars

\* the categories the classifier assigns by directory
DirectoryCategories ==
  { <<"i","n","t","e","g","r","a","t","i","o","n">>, <<"p","e","r","f","o","r","m","a","n","c","e">>, <<"c","o","n","t","r","o","l","l","e","r">>, <<"c","o","m","m","a","n","d">>, <<"f","a","c","t","o","r","y">> }

\* C14: a classified file whose relative directory matches a category
\* directory is assigned that category, whatever its filename.
C14_DirectoryRulesFirst ==
  Planned =>
    \A p \in DOMAIN files0 : \A c \in DirectoryCategories :
      ( /\ analyze_current_structure(p) # <<>>
        /\ Contains(c, RelativeTo(PathParent(p))) )
      => analyze_current_structure(p) = c

\* C15: no plan entry's target path is the source path of a different
\* entry.
C15_NoChainedEntries ==
  \A i, j \in 1..Len(rename_map) :
    i # j => rename_map[i][2] # rename_map[j][1]

\* the `_new` variants of the initial tree whose clean counterpart exists
Shadowed0 ==
  { p \in DOMAIN files0 :
      Contains(<<"_","n","e","w">>, p) /\ Replace(p, <<"_","n","e","w">>, <<>>) \in DOMAIN files0 }

\* C16: a `_new` variant whose clean counterpart exists is never a key of
\* the plan and is never moved: it stays at its path through the execution.
C16_NewVariantNotMoved ==
  \A p \in Shadowed0 :
    p \notin Keys(rename_map) /\ p \notin moved /\ p \in DOMAIN files

\* a non-dry-run execution that moved the clean counterpart has returned
C16_Witness ==
  /\ Finished
  /\ \E p \in Shadowed0 : Replace(p, <<"_","n","e","w">>, <<>>) \in moved

\* C17: nothing is mutated before the plan is built, the plan is computed
\* from the pre-run tree, and the plan is not altered afterwards.
C17_ReadBeforeWrite ==
  [][IF pc = "plan"
     THEN /\ files = files0 /\ dirs = dirs0
          /\ files' = files /\ dirs' = dirs
          /\ rename_map' \in Plans(files0, dirs0)
     ELSE rename_map' = rename_map]_vars

\* a non-dry-run execution has moved files, rewritten content and returned
C17_Witness ==
  /\ Finished /\ Cardinality(moved) >= 2
  /\ \E p \in DOMAIN files : IsSourceFile(p) /\ p \notin DOMAIN files0
  /\ dirs # dirs0

\* C18: the exit code is 0 only when no file failed to process.
C18_ExitZeroOnlyOnSuccess == exit_code = 0 => errors_printed = {}

\* C19: after a non-dry-run execution with a non-empty plan no empty
\* directory remains under root.
C19_NoEmptyDirRemains ==
  (Finished /\ rename_map # <<>>) =>
    \A d \in dirs : \E p \in DOMAIN files \cup dirs : PathParent(p) = d

\* the run removed a directory that became empty only through the removal
\* of the empty directory below it
C19_Witness ==
  /\ Finished /\ rename_map # <<>>
  /\ <<"t","/","e","/","f">> \in dirs0
  /\ <<"t","/","e">> \notin dirs

\* C20: when the plan is built, every entry's target is <root>/<Category>/<Prefix>_<Stem>_Test<ext>
\* with the source's extension, the category's prefix and directory, and
\* differs from the source.
C20_TargetForm ==
  [][pc = "plan" =>
      \A i \in 1..Len(rename_map') :
        \E old \in {rename_map'[i][1]}, new \in {rename_map'[i][2]},
           category \in {analyze_current_structure(rename_map'[i][1])} :
          /\ category # <<>> /\ category # <<"m","i","s","c">>
          /\ PathParent(new) = PathJoin(tests_dir, Capitalize(category))
          /\ StartsWith(PathName(new), category_map(category) \o <<"_">>)
          /\ EndsWith(PathName(new), <<"_","T","e","s","t">> \o PathSuffix(old))
          /\ Len(PathName(new)) >= Len(category_map(category)) + 1 + Len(<<"_","T","e","s","t">>) + Len(PathSuffix(old))
          /\ PathSuffix(new) = PathSuffix(old)
          /\ new # old]_vars

\* a plan with a header entry and with an entry of the controller category
C20_Witness ==
  /\ Planned
  /\ \E i \in 1..Len(rename_map) : PathSuffix(rename_map[i][1]) = <<".","h">>
  /\ \E i \in 1..Len(rename_map) :
       analyze_current_structure(rename_map[i][1]) = <<"c","o","n","t","r","o","l","l","e","r">>

\* two sequences of pieces that differ only in the letter case of noise
\* tokens
SameButNoiseCase(s1, s2) ==
  /\ Len(s1) = Len(s2)
  /\ \A i \in 1..Len(s1) :
       \/ s1[i] = s2[i]
       \/ /\ Lower(s1[i]) = Lower(s2[i])
          /\ \E t \in NoiseTokens : Lower(t) = Lower(s1[i])

\* C21: two stems that differ only in the letter case of a noise token get
\* the same new name from generate_new_name.
C21_NoiseCaseIgnored ==
  (name_call # <<>> /\ name_call.new_name # <<>>) =>
    \A s1, s2 \in TokenSeqs :
      (Join(s1) = PathStem(name_call.old_path) /\ SameButNoiseCase(s1, s2)) =>
        generate_new_name(PathJoin(PathParent(name_call.old_path), Join(s2) \o <<".","c","p","p">>),
                          name_call.category) = name_call.new_name

\* C22: after update_cmake_files, a manifest line that was the old relative
\* path of a plan entry is that entry's new relative path.
C22_RelativePathRewritten ==
  (pc \in {"cleanup", "done"} /\ ~ dry_run /\ rename_map # <<>>) =>
    \A p \in DOMAIN files0 :
      (IsCMakeFile(p) /\ p \in DOMAIN files) =>
        /\ Len(Lines(files[p])) = Len(Lines(files0[p]))
        /\ \A n \in 1..Len(Lines(files0[p])) : \A i \in 1..Len(rename_map) :
             Lines(files0[p])[n] = RelativeTo(rename_map[i][1])
               => Lines(files[p])[n] = RelativeTo(rename_map[i][2])

\* C24: at every point of the move phase of a non-dry-run execution, the
\* content every file had before the run is still stored at some path.
C24_NoContentLost ==
  (~ dry_run /\ pc \in {"mkdirs", "entry", "mkparent", "backup", "move", "includes"}) =>
    \A p \in DOMAIN files0 : \E q \in DOMAIN files : files[q] = files0[p]

\* the plan's entries in every order they can be applied in
PlanOrders(map) ==
  { [i \in 1..Len(map) |-> map[f[i]]] : f \in Permutations(1..Len(map)) }

\* C25: the content the reference rewrite computes for a file is the same
\* for every order of the plan's entries.
C25_RewriteOrderIndependent ==
  pc = "includes" =>
    \A map \in PlanOrders(rename_map) : \A p \in DOMAIN files :
      /\ IsSourceFile(p) =>
           update_includes(files[p], map) = update_includes(files[p], rename_map)
      /\ IsCMakeFile(p) =>
           update_cmake_files(files[p], map) = update_cmake_files(files[p], rename_map)

\* C23: every call of migrate_file adds one to files_processed; a call with
\* dry_run false on a readable file whose content the migration passes
\* change stores the original content in the .cpp.bak backup and the migrated
\* content in the file, returns True and adds one to files_modified.
C23_MigrateBacksUpAndWrites ==
  [][files_processed' # files_processed =>
      \E filepath \in {migrate_call'.filepath} :
        /\ files_processed' = files_processed + 1
        /\ (/\ filepath \in DOMAIN files
            /\ ~ dry_run
            /\ FirstPasses(files[filepath]) # files[filepath]) =>
             /\ with_suffix(filepath, <<".","c","p","p",".","b","a","k">>) \in DOMAIN files'
             /\ files'[with_suffix(filepath, <<".","c","p","p",".","b","a","k">>)] = files[filepath]
             /\ files'[filepath] = FirstPasses(files[filepath])
             /\ migrate_call'.result = TRUE
             /\ files_modified' = files_modified + 1]_vars

====
